---- MODULE Spec2Model ----
(***************************************************************************)
(* A model of ngSkinTools2/mllInterface.py (the MllInterface wrapper over  *)
(* the ngst2Layers host command and its BatchUpdateContext) and of         *)
(* ngSkinTools2/operations/ilm_importFromJson_actions.py (ilm_data_list).  *)
(*                                                                         *)
(* Encodings.  A float is an integer number of hundredths (50 is 0.5, 200  *)
(* is 2.0).  A Python string that the code builds by concatenation is the  *)
(* sequence of its pieces (characters or blank-free fragments; " " is the  *)
(* blank).  An optional value (None or x) is a record with an isNone flag. *)
(* A call's outcome is a record [h, ok, err, val, cmds]: the host state    *)
(* after it, whether it returned, the exception type when it raised, the   *)
(* value returned, and the commands it issued to the host.                 *)
(***************************************************************************)
EXTENDS Integers, Sequences, FiniteSets, TLC

VARIABLES
    mesh,        \* MllInterface.mesh (None, or a mesh name)
    host,        \* the layer data the ngst2Layers command keeps, per target
    stack,       \* the caller's open batch update scopes, innermost last
    unwinding,   \* TRUE while an exception propagates out of the scopes
    last,        \* the most recent wrapper call: its name, arguments, outcome
    scope,       \* the most recently left batch update scope
    batch,       \* the batch open or just closed: recompositions since the
                 \* outermost scope was opened, deepest nesting, mutations
    shadow,      \* what the caller last wrote successfully to the wrapper's mesh
    imp,         \* the most recent ilm_data_list call
    cb           \* the run of the "Bind skin and import layer" callback

vars == <<mesh, host, stack, unwinding, last, scope, batch, shadow, imp, cb>>

----------------------------------------------------------------------------
(* Bounds of the model. *)

\* vertices of the mesh as the layer manager sees it (getVertCount)
VertCount == 2
\* deepest nesting of batch update scopes the caller opens
MaxDepth == 2
\* most groups (values of the imported dictionary) in an imported file
MaxGroups == 2
\* records of one group of an imported file
MaxRecords == 2

\* 1.0 in hundredths: the cap of a weight and of an opacity
One == 100

----------------------------------------------------------------------------
(* Python values. *)

None == [isNone |-> TRUE, v |-> 0]
Some(x) == [isNone |-> FALSE, v |-> x]

NoMesh == [isNone |-> TRUE, name |-> <<>>]
MeshNamed(s) == [isNone |-> FALSE, name |-> s]

\* NamedPaintTarget and logical influence indexes: what callers pass as
\* "influence"
MASK == [named |-> TRUE, index |-> 0, name |-> "mask"]
DUAL_QUATERNION == [named |-> TRUE, index |-> 0, name |-> "dq"]
Influence(i) == [named |-> FALSE, index |-> i, name |-> ""]

DIRECTION_NEGATIVETOPOSITIVE == 0
DIRECTION_POSITIVETONEGATIVE == 1
DIRECTION_GUESS == 2
DIRECTION_FLIP == 3

TARGET_REFERENCE_MESH == <<"ngSkinTools#TargetRefMesh">>

DigitStr == <<"0", "1", "2", "3", "4", "5", "6", "7", "8", "9">>

\* str(n) / "{0}".format(n) of an integer 0..9
StrOfInt(n) == DigitStr[n + 1]

\* str(value) of a float given in hundredths, |value| < 10.0: "0.5", "2.0",
\* "0.25", "-0.5" (MllInterface.__floatListAsString.formatFloat)
formatFloat(value) ==
    LET a == IF value < 0 THEN 0 - value ELSE value
        frac == a % 100
        decimals == IF frac % 10 = 0 THEN <<DigitStr[(frac \div 10) + 1]>>
                    ELSE <<DigitStr[(frac \div 10) + 1], DigitStr[(frac % 10) + 1]>>
        digits == <<DigitStr[(a \div 100) + 1], ".">> \o decimals
    IN IF value < 0 THEN <<"-">> \o digits ELSE digits

RECURSIVE Join(_, _)
\* sep.join(parts)
Join(sep, parts) ==
    IF parts = <<>> THEN <<>>
    ELSE IF Len(parts) = 1 THEN parts[1]
    ELSE parts[1] \o sep \o Join(sep, Tail(parts))

\* MllInterface.__floatListAsString: "" for an empty list, else the floats
\* comma delimited
floatListAsString(floatList) ==
    IF floatList = <<>> THEN <<>>
    ELSE Join(<<",">>, [i \in 1..Len(floatList) |-> formatFloat(floatList[i])])

----------------------------------------------------------------------------
(* The host: the ngst2Layers command and the layer data it keeps.  The     *)
(* command is compiled code outside the Python sources; it is modelled     *)
(* from the wrapper's docstrings and the design description.               *)

LayerIds == {1, 2}
PaintTargets == {Influence(0), MASK, DUAL_QUATERNION}
Targets == {"selection", "reference", "meshA"}
\* mesh nodes of the scene
SceneMeshes == {<<"meshA">>}

\* a weight or an opacity as stored: capped to [0, 1]
Cap(v) == IF v > One THEN One ELSE IF v < 0 THEN 0 ELSE v

EmptyStore ==
    [suspend |-> 0, dirty |-> FALSE, current |-> 0,
     opacity |-> [l \in LayerIds |-> One],
     enabled |-> [l \in LayerIds |-> TRUE],
     parent |-> [l \in LayerIds |-> 0],
     weights |-> [l \in LayerIds |-> [p \in PaintTargets |-> <<>>]]]

\* what the host answers when the heuristics and conventions the sources do
\* not fix are left open: the direction DIRECTION_GUESS picks, and whether
\* an uninitialized buffer is returned as None or as an empty array
Oracles == [guess : {DIRECTION_NEGATIVETOPOSITIVE, DIRECTION_POSITIVETONEGATIVE},
            emptyAsNone : BOOLEAN]
NoOracle == [guess |-> DIRECTION_POSITIVETONEGATIVE, emptyAsNone |-> FALSE]

HostOk(h, v, n) == [h |-> h, ok |-> TRUE, err |-> "", val |-> v, recomp |-> n]
HostFail(h, e) == [h |-> h, ok |-> FALSE, err |-> e, val |-> 0, recomp |-> 0]

IntOfStr(s) == CHOOSE n \in 0..9 : DigitStr[n + 1] = s
IsDigit(s) == \E n \in 0..9 : DigitStr[n + 1] = s

RECURSIVE SplitOn(_, _, _)
\* the pieces of s between occurrences of sep; cur is the segment being read
SplitOn(sep, s, cur) ==
    IF s = <<>> THEN <<cur>>
    ELSE IF Head(s) = sep THEN <<cur>> \o SplitOn(sep, Tail(s), <<>>)
    ELSE SplitOn(sep, Tail(s), Append(cur, Head(s)))

\* the host's reading of one float: [-]d.d or [-]d.dd
ParseFloat(seg) ==
    LET neg == seg # <<>> /\ Head(seg) = "-"
        body == IF neg THEN Tail(seg) ELSE seg
        whole == IntOfStr(body[1]) * 100
        frac == IF Len(body) = 3 THEN IntOfStr(body[3]) * 10
                ELSE IntOfStr(body[3]) * 10 + IntOfStr(body[4])
    IN IF neg THEN 0 - (whole + frac) ELSE whole + frac

\* the host's reading of the vertexWeights string: "" is the empty list
ParseFloatList(s) ==
    IF s = <<>> THEN <<>>
    ELSE LET segs == SplitOn(",", s, <<>>)
         IN [i \in 1..Len(segs) |-> ParseFloat(segs[i])]

\* the target context a command addresses: the reference mesh with the
\* targetReferenceMesh flag, else the named object, else the selection
TargetOf(args, kw) ==
    IF "targetReferenceMesh" \in DOMAIN kw THEN "reference"
    ELSE IF args = <<>> THEN "selection"
    ELSE IF args[1] \in SceneMeshes THEN "meshA"
    ELSE "unresolved"

\* a change of layer data: recomposition runs at once unless suspended
Mutated(store) ==
    IF store.suspend = 0 THEN [store EXCEPT !.dirty = FALSE]
    ELSE [store EXCEPT !.dirty = TRUE]
RecompOf(store) == IF store.suspend = 0 THEN 1 ELSE 0

\* the mirror counterpart of vertex i across the seam
Counterpart(i) == VertCount + 1 - i

\* one buffer mirrored; an uninitialized buffer stays uninitialized
MirrorBuffer(b, dir) ==
    IF b = <<>> THEN b
    ELSE [i \in 1..Len(b) |->
            IF dir = DIRECTION_FLIP THEN b[Counterpart(i)]
            ELSE IF dir = DIRECTION_POSITIVETONEGATIVE
                 THEN (IF i > Counterpart(i) THEN b[Counterpart(i)] ELSE b[i])
            ELSE (IF i < Counterpart(i) THEN b[Counterpart(i)] ELSE b[i])]

\* the answer to a query of a buffer: an array, or nothing at all
ArrayResult(b, o) ==
    IF b = <<>> /\ o.emptyAsNone THEN [isNone |-> TRUE, items |-> <<>>]
    ELSE [isNone |-> FALSE, items |-> b]

\* the ngst2Layers command on the layer data of one target context
LayersCmd(h, t, o, kw) ==
    LET D == DOMAIN kw
        st == h[t]
        Put(st2) == [h EXCEPT ![t] = st2]
        lid == IF "id" \in D THEN kw.id
               ELSE IF "layerId" \in D THEN kw.layerId
               ELSE st.current
        query == "q" \in D
    IN
    IF "beginDataUpdate" \in D THEN
        HostOk(Put([st EXCEPT !.suspend = @ + 1]), 0, 0)
    ELSE IF "endDataUpdate" \in D THEN
        IF st.suspend = 0 THEN HostFail(h, "RuntimeError")
        ELSE IF st.suspend = 1
             THEN HostOk(Put([st EXCEPT !.suspend = 0, !.dirty = FALSE]), 0, 1)
        ELSE HostOk(Put([st EXCEPT !.suspend = @ - 1]), 0, 0)
    ELSE IF "cl" \in D THEN
        IF query THEN HostOk(h, st.current, 0)
        ELSE IF kw.cl \in LayerIds \cup {0}
             THEN HostOk(Put([st EXCEPT !.current = kw.cl]), 0, 0)
        ELSE HostFail(h, "RuntimeError")
    ELSE IF lid \notin LayerIds THEN HostFail(h, "RuntimeError")
    ELSE IF "opacity" \in D THEN
        IF query THEN HostOk(h, st.opacity[lid], 0)
        ELSE HostOk(Put(Mutated([st EXCEPT !.opacity[lid] = Cap(kw.opacity)])),
                    0, RecompOf(st))
    ELSE IF "enabled" \in D THEN
        IF query THEN HostOk(h, st.enabled[lid], 0)
        ELSE HostOk(Put(Mutated([st EXCEPT !.enabled[lid] = kw.enabled])),
                    0, RecompOf(st))
    ELSE IF "parent" \in D THEN
        IF query THEN HostOk(h, st.parent[lid], 0)
        ELSE IF kw.parent \in (LayerIds \ {lid}) \cup {0}
             THEN HostOk(Put(Mutated([st EXCEPT !.parent[lid] = kw.parent])),
                         0, RecompOf(st))
        ELSE HostFail(h, "RuntimeError")
    ELSE IF "paintTarget" \in D THEN
        IF kw.paintTarget \notin PaintTargets THEN HostFail(h, "RuntimeError")
        ELSE IF query THEN
            HostOk(h, ArrayResult(st.weights[lid][kw.paintTarget], o), 0)
        ELSE
            LET ws == ParseFloatList(kw.vertexWeights)
            IN IF ws # <<>> /\ Len(ws) # VertCount THEN HostFail(h, "RuntimeError")
               ELSE HostOk(Put(Mutated([st EXCEPT !.weights[lid][kw.paintTarget] =
                                          [i \in 1..Len(ws) |-> Cap(ws[i])]])),
                           0, RecompOf(st))
    ELSE IF "mirrorDirection" \in D THEN
        LET dir == IF kw.mirrorDirection = DIRECTION_GUESS THEN o.guess
                   ELSE kw.mirrorDirection
            chosen(p) == IF p = MASK THEN kw.mirrorLayerMask
                         ELSE IF p = DUAL_QUATERNION THEN kw.mirrorLayerDq
                         ELSE kw.mirrorLayerWeights
            mirrored == [p \in PaintTargets |->
                            IF chosen(p) THEN MirrorBuffer(st.weights[lid][p], dir)
                            ELSE st.weights[lid][p]]
        IN HostOk(Put(Mutated([st EXCEPT !.weights[lid] = mirrored])),
                  0, RecompOf(st))
    ELSE IF "pruneWeights" \in D \/ "pruneMask" \in D THEN
        LET pruned(p) == ("pruneMask" \in D) = (p = MASK) /\ p # DUAL_QUATERNION
            cut(b) == [i \in 1..Len(b) |->
                          IF b[i] < kw.pruneWeightsThreshold THEN 0 ELSE b[i]]
            after == [p \in PaintTargets |->
                         IF pruned(p) THEN cut(st.weights[lid][p])
                         ELSE st.weights[lid][p]]
        IN HostOk(Put(Mutated([st EXCEPT !.weights[lid] = after])), 0, RecompOf(st))
    ELSE HostFail(h, "RuntimeError")

\* cmds.ngst2Layers(*args, **kwargs): the command on the target its arguments
\* name; an object name that is no mesh of the scene is an error
ngst2Layers(h, o, args, kw) ==
    LET t == TargetOf(args, kw)
        c == <<[args |-> args, kw |-> kw, target |-> t]>>
    IN IF t = "unresolved" THEN HostFail(h, "RuntimeError") @@ [cmds |-> c]
       ELSE LayersCmd(h, t, o, kw) @@ [cmds |-> c]

\* the flags of the command's MEL syntax the wrapper uses, and the keyword
\* each one is in the Python syntax
MelFlagKey ==
    ("-id" :> "id") @@ ("-paintTarget" :> "paintTarget") @@ ("-q" :> "q") @@
    ("-opacity" :> "opacity") @@ ("-enabled" :> "enabled") @@ ("-w" :> "w") @@
    ("-parent" :> "parent") @@ ("-targetReferenceMesh" :> "targetReferenceMesh")
MelFlags == DOMAIN MelFlagKey
\* flags that take a value also in a query
MelValueFlags == {"-id", "-paintTarget"}

\* the words of a MEL command line: what blanks separate
Tokenize(s) == SelectSeq(SplitOn(" ", s, <<>>), LAMBDA w : w # <<>>)

IsFlag(w) == Len(w) = 1 /\ w[1] \in MelFlags

\* the value a MEL word stands for after -id and -paintTarget
MelValue(flag, w) ==
    IF flag = "-paintTarget"
    THEN (IF w = <<"mask">> THEN MASK
          ELSE IF w = <<"dq">> THEN DUAL_QUATERNION
          ELSE Influence(IntOfStr(w[1])))
    ELSE IntOfStr(w[1])

MelValueOk(flag, w) ==
    \/ Len(w) = 1 /\ IsDigit(w[1])
    \/ flag = "-paintTarget" /\ w \in {<<"mask">>, <<"dq">>}

RECURSIVE MelParse(_, _)
\* the words after the command name read into flags (name, value pairs) and
\* object arguments; ok is FALSE on a syntax error
MelParse(ws, acc) ==
    IF ws = <<>> THEN acc
    ELSE IF IsFlag(Head(ws)) THEN
        LET f == Head(ws)[1]
        IN IF f \in MelValueFlags THEN
               IF Len(ws) < 2 \/ ~MelValueOk(f, ws[2]) THEN [acc EXCEPT !.ok = FALSE]
               ELSE MelParse(Tail(Tail(ws)),
                        [acc EXCEPT !.flags = Append(@, <<MelFlagKey[f], MelValue(f, ws[2])>>)])
           ELSE MelParse(Tail(ws), [acc EXCEPT !.flags = Append(@, <<MelFlagKey[f], TRUE>>)])
    ELSE MelParse(Tail(ws), [acc EXCEPT !.args = Append(@, Head(ws))])

\* mel.eval(melCmd) of an ngst2Layers command line
MelEval(h, o, melCmd) ==
    LET ws == Tokenize(melCmd)
        p == MelParse(Tail(ws), [ok |-> TRUE, flags |-> <<>>, args |-> <<>>])
        keys == {p.flags[i][1] : i \in 1..Len(p.flags)}
        kw == [k \in keys |-> p.flags[CHOOSE i \in 1..Len(p.flags) : p.flags[i][1] = k][2]]
    IN IF ~p.ok
       THEN HostFail(h, "RuntimeError")
                @@ [cmds |-> <<[args |-> p.args, kw |-> kw, target |-> "unresolved"]>>]
       ELSE ngst2Layers(h, o, p.args, kw)

----------------------------------------------------------------------------
(* MllInterface.  Every method takes the wrapper's mesh m, the host state  *)
(* h and the host's open choices o, and yields the call's outcome.         *)

\* an exception raised in Python before any command is issued
Raise(h, e) == HostFail(h, e) @@ [cmds |-> <<>>]

\* a call that returned r with the value v instead of r's
Returning(r, v) == [r EXCEPT !.val = v]

\* "{0}".format(layerId) of an int or None
FormatId(layerId) == IF layerId.isNone THEN "None" ELSE StrOfInt(layerId.v)

\* "{1}".format(influence) of an influence index or a named paint target
FormatTarget(influence) ==
    IF influence.named THEN influence.name ELSE StrOfInt(influence.index)

ngSkinLayerCmd(m, h, o, args, kw) ==
    IF ~m.isNone
    THEN IF m.name = TARGET_REFERENCE_MESH
         THEN ngst2Layers(h, o, args, [targetReferenceMesh |-> TRUE] @@ kw)
         ELSE ngst2Layers(h, o, <<m.name>> \o args, kw)
    ELSE ngst2Layers(h, o, args, kw)

ngSkinLayerCmdMel(m, h, o, melCmd) ==
    LET cmd == <<"ngst2Layers", " ">> \o melCmd
        full == IF ~m.isNone
                THEN IF m.name = TARGET_REFERENCE_MESH
                     THEN cmd \o <<" ", "-targetReferenceMesh">>
                     ELSE cmd \o <<" ">> \o m.name
                ELSE cmd
    IN MelEval(h, o, full)

\* getLayerOpacity with the flag of getLayerParent left in its command
getLayerOpacityQueriesParent(m, h, o, layerId) ==
    IF layerId.isNone THEN Raise(h, "TypeError")
    ELSE ngSkinLayerCmdMel(m, h, o,
             <<"-id", " ", StrOfInt(layerId.v), " ", "-q", " ", "-parent">>)

getLayerOpacity(m, h, o, layerId) ==
    IF layerId.isNone THEN Raise(h, "TypeError")
    ELSE ngSkinLayerCmdMel(m, h, o,
             <<"-id", " ", StrOfInt(layerId.v), " ", "-q", " ", "-opacity">>)

setLayerOpacity(m, h, o, layerId, opacity) ==
    IF layerId.isNone THEN Raise(h, "TypeError")
    ELSE ngSkinLayerCmd(m, h, o, <<>>,
             [e |-> TRUE, id |-> layerId.v, opacity |-> opacity])

isLayerEnabled(m, h, o, layerId) ==
    IF layerId.isNone THEN Raise(h, "TypeError")
    ELSE ngSkinLayerCmdMel(m, h, o,
             <<"-id", " ", StrOfInt(layerId.v), " ", "-q", " ", "-enabled">>)

setLayerEnabled(m, h, o, layerId, enabled) ==
    IF layerId.isNone THEN Raise(h, "TypeError")
    ELSE ngSkinLayerCmd(m, h, o, <<>>,
             [e |-> TRUE, id |-> layerId.v, enabled |-> enabled])

\* __asTypeList without its test for None: iterating None is a TypeError
asTypeListNoNoneTest(type, r) ==
    IF ~r.ok THEN r
    ELSE IF ~r.val.isNone /\ r.val.items = <<>> THEN Returning(r, <<>>)
    ELSE [r EXCEPT !.ok = FALSE, !.err = "TypeError", !.val = 0]

\* MllInterface.__asTypeList: [] for None, else [_type[i] for i in result];
\* subscripting the type float (or int) is a TypeError, raised at the first
\* item
asTypeList(type, r) ==
    IF ~r.ok THEN r
    ELSE IF r.val.isNone THEN Returning(r, <<>>)
    ELSE IF r.val.items = <<>> THEN Returning(r, <<>>)
    ELSE [r EXCEPT !.ok = FALSE, !.err = "TypeError", !.val = 0]

asFloatList(r) == asTypeList("float", r)

getInfluenceWeights(m, h, o, layerId, influence) ==
    asFloatList(ngSkinLayerCmdMel(m, h, o,
        <<"-id", " ", FormatId(layerId), " ", "-paintTarget", " ",
          FormatTarget(influence), " ", "-q", " ", "-w", " ">>))

\* setInfluenceWeights that resets the buffer and then writes it, in two
\* commands
setInfluenceWeightsClearFirst(m, h, o, layerId, influence, weights, undoEnabled) ==
    IF layerId.isNone THEN Raise(h, "TypeError")
    ELSE LET kw(ws) == [e |-> TRUE, id |-> layerId.v, paintTarget |-> influence,
                        vertexWeights |-> floatListAsString(ws),
                        undoEnabled |-> undoEnabled]
             r1 == ngSkinLayerCmd(m, h, o, <<>>, kw(<<>>))
             r2 == ngSkinLayerCmd(m, r1.h, o, <<>>, kw(weights))
         IN IF ~r1.ok THEN r1
            ELSE [r2 EXCEPT !.cmds = r1.cmds \o r2.cmds, !.recomp = r1.recomp + r2.recomp]

setInfluenceWeights(m, h, o, layerId, influence, weights, undoEnabled) ==
    IF layerId.isNone THEN Raise(h, "TypeError")
    ELSE ngSkinLayerCmd(m, h, o, <<>>,
             [e |-> TRUE, id |-> layerId.v, paintTarget |-> influence,
              vertexWeights |-> floatListAsString(weights),
              undoEnabled |-> undoEnabled])

getLayerMask(m, h, o, layerId) == getInfluenceWeights(m, h, o, layerId, MASK)

setLayerMask(m, h, o, layerId, weights) ==
    setInfluenceWeights(m, h, o, layerId, MASK, weights, TRUE)

getDualQuaternionWeights(m, h, o, layerId) ==
    getInfluenceWeights(m, h, o, layerId, DUAL_QUATERNION)

setDualQuaternionWeights(m, h, o, layerId, weights) ==
    setInfluenceWeights(m, h, o, layerId, DUAL_QUATERNION, weights, TRUE)

mirrorLayerWeights(m, h, o, layerId, mirrorWidth, mirrorWeights, mirrorLayerMask, mirrorDualQuaternion, mirrorDirection) ==
    ngSkinLayerCmd(m, h, o, <<>>,
        [id |-> layerId, mirrorWidth |-> mirrorWidth,
         mirrorLayerWeights |-> mirrorWeights, mirrorLayerMask |-> mirrorLayerMask,
         mirrorLayerDq |-> mirrorDualQuaternion, mirrorDirection |-> mirrorDirection])

beginDataUpdate(m, h, o) == ngSkinLayerCmd(m, h, o, <<>>, [beginDataUpdate |-> TRUE])

\* endDataUpdate as a copy of beginDataUpdate whose flag was not changed
endDataUpdateSendsBegin(m, h, o) ==
    ngSkinLayerCmd(m, h, o, <<>>, [beginDataUpdate |-> TRUE])

endDataUpdate(m, h, o) == ngSkinLayerCmd(m, h, o, <<>>, [endDataUpdate |-> TRUE])

pruneWeights(m, h, o, layerId, threshold) ==
    IF layerId.isNone THEN Raise(h, "TypeError")
    ELSE ngSkinLayerCmd(m, h, o, <<>>,
             [e |-> TRUE, layerId |-> layerId.v, pruneWeights |-> TRUE,
              pruneWeightsThreshold |-> threshold])

pruneMask(m, h, o, layerId, threshold) ==
    IF layerId.isNone THEN Raise(h, "TypeError")
    ELSE ngSkinLayerCmd(m, h, o, <<>>,
             [e |-> TRUE, layerId |-> layerId.v, pruneMask |-> TRUE,
              pruneWeightsThreshold |-> threshold])

setCurrentLayer(m, h, o, layerId) ==
    ngSkinLayerCmd(m, h, o, <<>>, [cl |-> IF layerId.isNone THEN 0 ELSE layerId.v])

getCurrentLayer(m, h, o) ==
    LET r == ngSkinLayerCmd(m, h, o, <<>>, [q |-> TRUE, cl |-> TRUE])
    IN IF ~r.ok THEN r
       ELSE IF r.val = 0 THEN Returning(r, None) ELSE Returning(r, Some(r.val))

setLayerParent(m, h, o, layerId, parentLayerId) ==
    IF layerId.isNone THEN Raise(h, "TypeError")
    ELSE ngSkinLayerCmd(m, h, o, <<>>,
             [e |-> TRUE, id |-> layerId.v,
              parent |-> IF parentLayerId.isNone THEN 0 ELSE parentLayerId.v])

\* getLayerParent that returns the host's answer as it is
getLayerParentReturnsResult(m, h, o, layerId) ==
    LET r == ngSkinLayerCmdMel(m, h, o,
                 <<"-id", " ", FormatId(layerId), " ", "-q", " ", "-parent">>)
    IN IF ~r.ok THEN r ELSE Returning(r, Some(r.val))

getLayerParent(m, h, o, layerId) ==
    LET r == ngSkinLayerCmdMel(m, h, o,
                 <<"-id", " ", FormatId(layerId), " ", "-q", " ", "-parent">>)
    IN IF ~r.ok THEN r
       ELSE IF r.val = 0 THEN Returning(r, None) ELSE Returning(r, Some(r.val))

\* BatchUpdateContext.__enter__ and __exit__; excType is None when the body
\* of the with statement finished, else the exception leaving it
CtxEnter(m, h, o) == beginDataUpdate(m, h, o)

\* __exit__ that ends the batch only when the body finished without raising
CtxExitOnSuccessOnly(m, h, o, excType) ==
    IF excType.isNone THEN endDataUpdate(m, h, o)
    ELSE HostOk(h, 0, 0) @@ [cmds |-> <<>>]

CtxExit(m, h, o, excType) == endDataUpdate(m, h, o)

----------------------------------------------------------------------------
(* The caller: a session of calls on one MllInterface.                     *)

Uniform(v, n) == [i \in 1..n |-> v]

\* weight lists a caller passes: empty, of vertex-count length (within and
\* above 1.0), and of a wrong length
Mixed == <<200>> \o Uniform(50, VertCount - 1)
TooLong == Uniform(50, VertCount + 1)
WeightLists == {<<>>, Mixed, TooLong}

OpacityArgs == {50, 200}

\* meshes an MllInterface is constructed with
InitMeshes == {NoMesh, MeshNamed(<<"gone">>)}
\* meshes setCurrentMesh is called with
MeshArgs == InitMeshes \cup {MeshNamed(<<"meshA">>), MeshNamed(TARGET_REFERENCE_MESH),
                             MeshNamed(<<>>)}

\* a value the caller wrote; fresh when written in the batch that is open
\* (reset: the write replaced an initialized weight buffer)
Unknown == [known |-> FALSE, fresh |-> FALSE, reset |-> FALSE, v |-> <<>>]
Known(x) == [known |-> TRUE, fresh |-> stack # <<>>, reset |-> FALSE, v |-> x]
KnownOver(x, old) == [Known(x) EXCEPT !.reset = (old # <<>>)]
Stale(x) == [x EXCEPT !.fresh = FALSE]

NoShadow ==
    [weights |-> [l \in LayerIds |-> [p \in PaintTargets |-> Unknown]],
     opacity |-> [l \in LayerIds |-> Unknown],
     enabled |-> [l \in LayerIds |-> Unknown]]

NoCall == [op |-> "none", args |-> <<>>, ok |-> TRUE, err |-> "", val |-> 0,
           cmds |-> <<>>, recomp |-> 0, depth |-> 0]
NoScope == [kind |-> "none", entered |-> FALSE, path |-> "none", ends |-> 0]
NoBatch == [recomp |-> 0, deepest |-> 0, mutated |-> FALSE]
NoImport == [called |-> FALSE, data |-> <<>>, scene |-> {}, ok |-> TRUE,
             err |-> "", val |-> <<>>, warnings |-> <<>>]
\* the scene and the user's answers a run of the callback meets
NoEnv == [selected |-> 0, meshes |-> <<>>, skinned |-> {}, fileName |-> <<>>,
          data |-> <<>>, scene |-> {}, bindFails |-> FALSE]
NoCallback == [pc |-> "idle", env |-> NoEnv, events |-> <<>>, exc |-> "",
               geo |-> <<>>, listData |-> <<>>]

Init ==
    /\ mesh \in InitMeshes
    /\ host = [t \in Targets |-> EmptyStore]
    /\ stack = <<>>
    /\ unwinding = FALSE
    /\ last = NoCall
    /\ scope = NoScope
    /\ batch = NoBatch
    /\ shadow = NoShadow
    /\ imp = NoImport
    /\ cb = NoCallback

\* the target the call's command addressed (a call issues at most one)
TargetOfCall(r) == IF r.cmds = <<>> THEN "unresolved" ELSE r.cmds[1].target

\* endDataUpdate commands among the commands a call issued
EndCalls(cmds) ==
    Cardinality({i \in 1..Len(cmds) : "endDataUpdate" \in DOMAIN cmds[i].kw})

MutatingOps ==
    {"setLayerOpacity", "setLayerEnabled", "setInfluenceWeights", "setLayerMask",
     "setDualQuaternionWeights", "mirrorLayerWeights", "pruneWeights", "pruneMask"}

\* a call op(args) with outcome r becomes the session's last call
Called(op, args, r) ==
    /\ host' = r.h
    /\ last' = [op |-> op, args |-> args, ok |-> r.ok, err |-> r.err, val |-> r.val,
                cmds |-> r.cmds, recomp |-> r.recomp, depth |-> Len(stack)]
    /\ batch' =
           LET opening == op \in {"__enter__", "beginDataUpdate"} /\ r.ok
               depth == IF opening THEN Len(stack) + 1 ELSE Len(stack)
           IN IF stack # <<>>
              THEN [recomp |-> batch.recomp + r.recomp,
                    deepest |-> IF depth > batch.deepest THEN depth ELSE batch.deepest,
                    mutated |-> batch.mutated \/ (r.ok /\ op \in MutatingOps)]
              ELSE IF opening
              THEN [recomp |-> r.recomp, deepest |-> 1, mutated |-> FALSE]
              ELSE NoBatch

\* a call made in the body of the caller's code, outside any exception
\* handling in progress
Body == ~unwinding

SetLayerOpacity(ids, values) ==
    \E layerId \in ids, opacity \in values :
        LET r == setLayerOpacity(mesh, host, NoOracle, layerId, opacity)
        IN /\ Body
           /\ Called("setLayerOpacity", [layerId |-> layerId, opacity |-> opacity], r)
           /\ shadow' = IF r.ok THEN [shadow EXCEPT !.opacity[layerId.v] = Known(opacity)]
                        ELSE shadow
           /\ UNCHANGED <<mesh, stack, unwinding, scope, imp, cb>>

GetLayerOpacity(ids) ==
    \E layerId \in ids :
        LET r == getLayerOpacity(mesh, host, NoOracle, layerId)
        IN /\ Body
           /\ Called("getLayerOpacity", [layerId |-> layerId], r)
           /\ UNCHANGED <<mesh, stack, unwinding, scope, shadow, imp, cb>>

SetLayerEnabled(ids) ==
    \E layerId \in ids, enabled \in BOOLEAN :
        LET r == setLayerEnabled(mesh, host, NoOracle, layerId, enabled)
        IN /\ Body
           /\ Called("setLayerEnabled", [layerId |-> layerId, enabled |-> enabled], r)
           /\ shadow' = IF r.ok THEN [shadow EXCEPT !.enabled[layerId.v] = Known(enabled)]
                        ELSE shadow
           /\ UNCHANGED <<mesh, stack, unwinding, scope, imp, cb>>

IsLayerEnabled(ids) ==
    \E layerId \in ids :
        LET r == isLayerEnabled(mesh, host, NoOracle, layerId)
        IN /\ Body
           /\ Called("isLayerEnabled", [layerId |-> layerId], r)
           /\ UNCHANGED <<mesh, stack, unwinding, scope, shadow, imp, cb>>

\* the caller's record after a successful write of a weight buffer
Wrote(t, l, p, weights) ==
    [shadow EXCEPT !.weights[l][p] = KnownOver(weights, host[t].weights[l][p])]

SetInfluenceWeights(ids, pts, lists) ==
    \E layerId \in ids, influence \in pts, weights \in lists :
        LET r == setInfluenceWeights(mesh, host, NoOracle, layerId, influence, weights, TRUE)
            t == TargetOfCall(r)
        IN /\ Body
           /\ Called("setInfluenceWeights",
                     [layerId |-> layerId, influence |-> influence, weights |-> weights], r)
           /\ shadow' = IF r.ok THEN Wrote(t, layerId.v, influence, weights) ELSE shadow
           /\ UNCHANGED <<mesh, stack, unwinding, scope, imp, cb>>

\* the host's open choices that a query of a weight buffer meets
QueryOracles == {x \in Oracles : x.guess = NoOracle.guess}

GetInfluenceWeights(ids, pts) ==
    \E layerId \in ids, influence \in pts, o \in QueryOracles :
        LET r == getInfluenceWeights(mesh, host, o, layerId, influence)
        IN /\ Body
           /\ Called("getInfluenceWeights", [layerId |-> layerId, influence |-> influence], r)
           /\ UNCHANGED <<mesh, stack, unwinding, scope, shadow, imp, cb>>

SetLayerMask(ids, lists) ==
    \E layerId \in ids, weights \in lists :
        LET r == setLayerMask(mesh, host, NoOracle, layerId, weights)
        IN /\ Body
           /\ Called("setLayerMask", [layerId |-> layerId, weights |-> weights], r)
           /\ shadow' = IF r.ok THEN Wrote(TargetOfCall(r), layerId.v, MASK, weights)
                        ELSE shadow
           /\ UNCHANGED <<mesh, stack, unwinding, scope, imp, cb>>

GetLayerMask(ids) ==
    \E layerId \in ids, o \in QueryOracles :
        LET r == getLayerMask(mesh, host, o, layerId)
        IN /\ Body
           /\ Called("getLayerMask", [layerId |-> layerId, influence |-> MASK], r)
           /\ UNCHANGED <<mesh, stack, unwinding, scope, shadow, imp, cb>>

SetDualQuaternionWeights(ids, lists) ==
    \E layerId \in ids, weights \in lists :
        LET r == setDualQuaternionWeights(mesh, host, NoOracle, layerId, weights)
        IN /\ Body
           /\ Called("setDualQuaternionWeights", [layerId |-> layerId, weights |-> weights], r)
           /\ shadow' = IF r.ok
                        THEN Wrote(TargetOfCall(r), layerId.v, DUAL_QUATERNION, weights)
                        ELSE shadow
           /\ UNCHANGED <<mesh, stack, unwinding, scope, imp, cb>>

GetDualQuaternionWeights(ids) ==
    \E layerId \in ids, o \in QueryOracles :
        LET r == getDualQuaternionWeights(mesh, host, o, layerId)
        IN /\ Body
           /\ Called("getDualQuaternionWeights",
                     [layerId |-> layerId, influence |-> DUAL_QUATERNION], r)
           /\ UNCHANGED <<mesh, stack, unwinding, scope, shadow, imp, cb>>

MirrorDirections ==
    {DIRECTION_NEGATIVETOPOSITIVE, DIRECTION_POSITIVETONEGATIVE, DIRECTION_GUESS,
     DIRECTION_FLIP}

MirrorLayerWeights(ids) ==
    \E layerId \in ids, mw \in BOOLEAN, mm \in BOOLEAN, mdq \in BOOLEAN,
       dir \in MirrorDirections :
      \E o \in {x \in Oracles : ~x.emptyAsNone /\ (dir # DIRECTION_GUESS => x = NoOracle)} :
        LET r == mirrorLayerWeights(mesh, host, o, layerId, 0, mw, mm, mdq, dir)
            chosen(p) == IF p = MASK THEN mm ELSE IF p = DUAL_QUATERNION THEN mdq ELSE mw
        IN /\ Body
           /\ Called("mirrorLayerWeights",
                     [layerId |-> layerId, mirrorLayerWeights |-> mw, mirrorLayerMask |-> mm,
                      mirrorDualQuaternion |-> mdq, mirrorDirection |-> dir], r)
           /\ shadow' = IF r.ok
                        THEN [shadow EXCEPT !.weights[layerId] =
                                 [p \in PaintTargets |-> IF chosen(p) THEN Unknown ELSE @[p]]]
                        ELSE shadow
           /\ UNCHANGED <<mesh, stack, unwinding, scope, imp, cb>>

PruneWeights(ids, thresholds) ==
    \E layerId \in ids, threshold \in thresholds :
        LET r == pruneWeights(mesh, host, NoOracle, layerId, threshold)
        IN /\ Body
           /\ Called("pruneWeights", [layerId |-> layerId, threshold |-> threshold], r)
           /\ shadow' = IF r.ok
                        THEN [shadow EXCEPT !.weights[layerId.v] =
                                 [p \in PaintTargets |-> IF p.named THEN @[p] ELSE Unknown]]
                        ELSE shadow
           /\ UNCHANGED <<mesh, stack, unwinding, scope, imp, cb>>

PruneMask(ids, thresholds) ==
    \E layerId \in ids, threshold \in thresholds :
        LET r == pruneMask(mesh, host, NoOracle, layerId, threshold)
        IN /\ Body
           /\ Called("pruneMask", [layerId |-> layerId, threshold |-> threshold], r)
           /\ shadow' = IF r.ok THEN [shadow EXCEPT !.weights[layerId.v][MASK] = Unknown]
                        ELSE shadow
           /\ UNCHANGED <<mesh, stack, unwinding, scope, imp, cb>>

SetCurrentLayer(ids) ==
    \E layerId \in ids :
        LET r == setCurrentLayer(mesh, host, NoOracle, layerId)
        IN /\ Body
           /\ Called("setCurrentLayer", [layerId |-> layerId], r)
           /\ UNCHANGED <<mesh, stack, unwinding, scope, shadow, imp, cb>>

GetCurrentLayer ==
    LET r == getCurrentLayer(mesh, host, NoOracle)
    IN /\ Body
       /\ Called("getCurrentLayer", <<>>, r)
       /\ UNCHANGED <<mesh, stack, unwinding, scope, shadow, imp, cb>>

SetLayerParent(ids, parents) ==
    \E layerId \in ids, parentLayerId \in parents :
        LET r == setLayerParent(mesh, host, NoOracle, layerId, parentLayerId)
        IN /\ Body
           /\ Called("setLayerParent",
                     [layerId |-> layerId, parentLayerId |-> parentLayerId], r)
           /\ UNCHANGED <<mesh, stack, unwinding, scope, shadow, imp, cb>>

GetLayerParent(ids) ==
    \E layerId \in ids :
        LET r == getLayerParent(mesh, host, NoOracle, layerId)
        IN /\ Body
           /\ Called("getLayerParent", [layerId |-> layerId], r)
           /\ UNCHANGED <<mesh, stack, unwinding, scope, shadow, imp, cb>>

\* setCurrentMesh: later commands address another target, of which the
\* caller has written nothing yet
SetCurrentMesh ==
    \E m \in MeshArgs :
        /\ Body
        /\ stack = <<>>
        /\ mesh' = m
        /\ last' = [NoCall EXCEPT !.op = "setCurrentMesh", !.args = [mesh |-> m]]
        /\ shadow' = NoShadow
        /\ batch' = NoBatch
        /\ UNCHANGED <<host, stack, unwinding, scope, imp, cb>>

\* nothing the caller wrote was written in the batch that opens now
AllStale ==
    [weights |-> [l \in LayerIds |-> [p \in PaintTargets |-> Stale(shadow.weights[l][p])]],
     opacity |-> [l \in LayerIds |-> Stale(shadow.opacity[l])],
     enabled |-> [l \in LayerIds |-> Stale(shadow.enabled[l])]]

\* "with mll.batchUpdateContext():" is entered: __enter__ runs; when it
\* raises, the with statement has no scope to leave
WithEnter ==
    LET r == CtxEnter(mesh, host, NoOracle)
    IN /\ Body
       /\ Len(stack) < MaxDepth
       /\ Called("__enter__", <<>>, r)
       /\ stack' = IF r.ok THEN Append(stack, "with") ELSE stack
       /\ scope' = IF r.ok THEN scope
                   ELSE [kind |-> "with", entered |-> FALSE, path |-> "none", ends |-> 0]
       /\ shadow' = IF r.ok /\ stack = <<>> THEN AllStale ELSE shadow
       /\ UNCHANGED <<mesh, unwinding, imp, cb>>

\* the with statement is left: __exit__ runs once, with the exception that
\* leaves the body or with None; it returns None, so the exception goes on
WithExit ==
    LET r == CtxExit(mesh, host, NoOracle, IF unwinding THEN Some(last.err) ELSE None)
    IN /\ stack # <<>>
       /\ stack[Len(stack)] = "with"
       /\ Called("__exit__", <<>>, r)
       /\ stack' = SubSeq(stack, 1, Len(stack) - 1)
       /\ scope' = [kind |-> "with", entered |-> TRUE,
                    path |-> IF unwinding THEN "raised" ELSE "normal",
                    ends |-> EndCalls(r.cmds)]
       /\ unwinding' = (unwinding /\ Len(stack) > 1)
       /\ UNCHANGED <<mesh, shadow, imp, cb>>

\* "mll.beginDataUpdate()" followed by "try:"
BeginDataUpdate ==
    LET r == beginDataUpdate(mesh, host, NoOracle)
    IN /\ Body
       /\ Len(stack) < MaxDepth
       /\ Called("beginDataUpdate", <<>>, r)
       /\ stack' = IF r.ok THEN Append(stack, "try") ELSE stack
       /\ shadow' = IF r.ok /\ stack = <<>> THEN AllStale ELSE shadow
       /\ UNCHANGED <<mesh, unwinding, scope, imp, cb>>

\* "finally: mll.endDataUpdate()"
EndDataUpdate ==
    LET r == endDataUpdate(mesh, host, NoOracle)
    IN /\ stack # <<>>
       /\ stack[Len(stack)] = "try"
       /\ Called("endDataUpdate", <<>>, r)
       /\ stack' = SubSeq(stack, 1, Len(stack) - 1)
       /\ scope' = [kind |-> "try", entered |-> TRUE,
                    path |-> IF unwinding THEN "raised" ELSE "normal",
                    ends |-> EndCalls(r.cmds)]
       /\ unwinding' = (unwinding /\ Len(stack) > 1)
       /\ UNCHANGED <<mesh, shadow, imp, cb>>

\* the exception of the last call is not caught in the body: it leaves the
\* open scopes, innermost first
Propagate ==
    /\ Body
    /\ ~last.ok
    /\ stack # <<>>
    /\ unwinding' = TRUE
    /\ UNCHANGED <<mesh, host, stack, last, scope, batch, shadow, imp, cb>>

ScopeIds == {Some(1), Some(3)}
OneId == {Some(1)}

NextScope ==
    \/ WithEnter
    \/ WithExit
    \/ BeginDataUpdate
    \/ EndDataUpdate
    \/ Propagate
    \/ SetLayerOpacity(ScopeIds, {50})
    \/ GetLayerOpacity(OneId)
    \/ SetLayerEnabled(OneId)
    \/ IsLayerEnabled(OneId)
    \/ SetInfluenceWeights(OneId, {Influence(0)}, {Uniform(50, VertCount)})
    \/ GetInfluenceWeights(OneId, {Influence(0)})

SpecScope == Init /\ [][NextScope]_vars

WeightIds == {Some(1), Some(3), None}

\* sessions that write and read the weight buffers of a layer
NextWeights ==
    \/ SetInfluenceWeights(ScopeIds, PaintTargets, WeightLists)
    \/ GetInfluenceWeights(ScopeIds, PaintTargets)
    \/ SetLayerMask(OneId, WeightLists)
    \/ GetLayerMask(OneId)
    \/ SetDualQuaternionWeights(OneId, WeightLists)
    \/ GetDualQuaternionWeights(OneId)

SpecWeights == Init /\ [][NextWeights]_vars

\* sessions that write and mirror the weight buffers of a layer
NextMirror ==
    \/ SetInfluenceWeights(WeightIds, {Influence(0), MASK}, {Mixed, TooLong})
    \/ MirrorLayerWeights({1, 3})

SpecMirror == Init /\ [][NextMirror]_vars

\* pruneWeightsThreshold values: the default 0.01, and 0.6
DefaultThreshold == 1
Thresholds == {DefaultThreshold, 60}

\* sessions on the layers' opacity, the current layer and pruning
NextLayer ==
    \/ SetLayerOpacity({Some(1), Some(2), Some(3)}, OpacityArgs)
    \/ GetLayerOpacity({Some(1), Some(2), Some(3), None})
    \/ SetCurrentLayer({Some(1), Some(2), None})
    \/ GetCurrentLayer
    \/ SetInfluenceWeights(OneId, {Influence(0), MASK}, {Mixed})
    \/ PruneWeights({Some(1), Some(2), None}, Thresholds)
    \/ PruneMask({Some(1), Some(2), None}, Thresholds)

SpecLayer == Init /\ [][NextLayer]_vars

\* sessions that set and read the current layer and the layers' parents,
\* None included
NextParent ==
    \/ SetCurrentLayer({Some(1), Some(2), None})
    \/ GetCurrentLayer
    \/ SetLayerParent({Some(1), Some(2), None}, {Some(1), Some(2), None})
    \/ GetLayerParent({Some(1), Some(2), None})

SpecParent == Init /\ [][NextParent]_vars

\* sessions that move the wrapper from mesh to mesh and issue commands on
\* both paths: setLayerEnabled by keywords, isLayerEnabled by a MEL string
NextTarget ==
    \/ SetCurrentMesh
    \/ SetLayerEnabled(OneId)
    \/ IsLayerEnabled(OneId)

SpecTarget == Init /\ [][NextTarget]_vars

----------------------------------------------------------------------------
(* ilm_data_list: the joint paths of an imported file that the scene has.  *)
(* The parsed file is the sequence of the values of the imported           *)
(* dictionary (its groups), each a sequence of records with a path; the    *)
(* scene is the set of paths cmds.objExists finds.                         *)

JointPaths == {<<"|", "root", "|", "jntA">>, <<"|", "root", "|", "jntB">>}

SeqsUpTo(S, n) == UNION {[1..k -> S] : k \in 0..n}

Records == [path : JointPaths]
ImportedFiles == SeqsUpTo(SeqsUpTo(Records, MaxRecords), MaxGroups)
Scenes == SUBSET JointPaths

RECURSIVE jointsSelectLoop(_, _, _)
\* "for values in data_values: jointsSelectList = [item['path'] ...]" from
\* the k-th group on, jointsSelectList being acc so far
jointsSelectLoop(data_values, k, acc) ==
    IF k > Len(data_values) THEN acc
    ELSE jointsSelectLoop(data_values, k + 1,
             [i \in 1..Len(data_values[k]) |-> data_values[k][i].path])

\* the text of the warning for a path the scene lacks
MissingWarning(object) ==
    LET objectName == SplitOn("|", object, <<>>)
    IN objectName[Len(objectName)] \o <<" ", "doesn't exist in the scene">>

ilm_data_list(data_values, scene) ==
    LET jointsSelectList == jointsSelectLoop(data_values, 1, <<>>)
        exists(object) == object \in scene
        absent(object) == object \notin scene
        newList == SelectSeq(jointsSelectList, exists)
        missing == SelectSeq(jointsSelectList, absent)
        warnings == [i \in 1..Len(missing) |-> MissingWarning(missing[i])]
    IN IF newList = <<>>
       THEN [ok |-> FALSE, err |-> "ValueError", val |-> <<>>, warnings |-> warnings]
       ELSE [ok |-> TRUE, err |-> "", val |-> newList, warnings |-> warnings]

\* one import of a file into a scene
IlmDataList ==
    \E data \in ImportedFiles, scene \in Scenes :
        LET r == ilm_data_list(data, scene)
        IN /\ ~imp.called
           /\ imp' = [called |-> TRUE, data |-> data, scene |-> scene, ok |-> r.ok,
                      err |-> r.err, val |-> r.val, warnings |-> r.warnings]
           /\ UNCHANGED <<mesh, host, stack, unwinding, last, scope, batch, shadow, cb>>

NextImport == IlmDataList

SpecImport == Init /\ [][NextImport]_vars

----------------------------------------------------------------------------
(* import_callback_bindSkin: the callback of "Bind skin and import layer". *)
(* cb.pc is the statement the run is at; cb.events lists the Maya          *)
(* commands, the dialog and the calls the run has made so far; cb.env is   *)
(* what they answer: the number of selected objects, the mesh shapes under *)
(* the selection, the transforms that have a skin cluster, the file the    *)
(* dialog returns ("" when cancelled), the parsed file and the scene's     *)
(* joints, and whether cmds.skinCluster fails.                             *)

\* the mesh shapes under a selection, by their full paths: none, one, two
\* under one transform, two under two transforms
MeshSelections ==
    {<<>>,
     <<(<<"|", "geo", "|", "geoShape">>)>>,
     <<(<<"|", "geo", "|", "geoShape">>), (<<"|", "geo", "|", "geoShapeOrig">>)>>,
     <<(<<"|", "geo", "|", "geoShape">>), (<<"|", "geoB", "|", "geoBShape">>)>>}
CallbackFiles == SeqsUpTo(SeqsUpTo(Records, 1), 1)

\* the full path of the parent of a node given by its full path
ParentOf(node) == SubSeq(node, 1, Len(node) - 2)

Envs == [selected : {0, 1, 2}, meshes : MeshSelections,
         skinned : SUBSET {<<"|", "geo">>, <<"|", "geoB">>},
         fileName : {<<>>, <<"weights.json">>},
         data : CallbackFiles, scene : Scenes, bindFails : BOOLEAN]

RECURSIVE appendNew(_, _)
\* "[geo.append(i) for i in new_list if i not in geo]" from geo on
appendNew(new_list, geo) ==
    IF new_list = <<>> THEN geo
    ELSE appendNew(Tail(new_list),
             IF \E k \in 1..Len(geo) : geo[k] = Head(new_list) THEN geo
             ELSE Append(geo, Head(new_list)))

\* cmds.listRelatives(object_mesh, ap=True, f=True)
listRelatives(object_mesh) == [i \in 1..Len(object_mesh) |-> ParentOf(object_mesh[i])]

\* mel.eval('findRelatedSkinCluster ' + geo[0]): "" when there is none
findRelatedSkinCluster(env, node) ==
    IF node \in env.skinned THEN <<"skinCluster1">> ELSE <<>>

\* the callback raises e
Raised(run, e) == [run EXCEPT !.pc = "raised", !.exc = e]
\* the run has made the command or call ev
Did(run, ev) == [run EXCEPT !.events = Append(@, ev)]

\* "if len(cmds.ls(sl=True)) != 1: raise ValueError"
selectionCheck(run) ==
    LET r == Did(run, "ls")
    IN IF run.env.selected # 1 THEN Raised(r, "ValueError")
       ELSE [r EXCEPT !.pc = "mesh"]

\* the mesh shapes of the selection, and the transforms they are under
meshCheck(run) ==
    LET object_mesh == run.env.meshes
        r == Did(run, "lsMesh")
    IN IF object_mesh = <<>> THEN Raised(r, "ValueError")
       ELSE [Did(r, "listRelatives") EXCEPT
                !.geo = appendNew(listRelatives(object_mesh), <<>>), !.pc = "skin"]

\* "if target_geo: raise ValueError"
skinCheck(run) ==
    LET target_geo == findRelatedSkinCluster(run.env, run.geo[1])
        r == Did(run, "findRelatedSkinCluster")
    IN IF target_geo # <<>> THEN Raised(r, "ValueError")
       ELSE [r EXCEPT !.pc = "dialog"]

\* the dialog that asks for every file, also when the user cancelled
fileDialogIgnoresCancel(run) ==
    [Did(run, "dialog") EXCEPT !.pc = "list"]

\* "file_name, selected_format = file_dialog_func(); if not file_name: return"
fileDialog(run) ==
    LET file_name == run.env.fileName
        r == Did(run, "dialog")
    IN IF file_name = <<>> THEN [r EXCEPT !.pc = "returned"]
       ELSE [r EXCEPT !.pc = "list"]

\* "list_data = ilm_data_list(file_name, selected_format)"
dataList(run) ==
    LET res == ilm_data_list(run.env.data, run.env.scene)
        r == Did(run, "ilm_data_list")
    IN IF ~res.ok THEN Raised(r, res.err)
       ELSE [r EXCEPT !.listData = res.val, !.pc = "bind"]

\* "cmds.skinCluster(list_data, geo[0], ...)"
bindSkin(run) ==
    LET r == Did(run, "skinCluster")
    IN IF run.env.bindFails THEN Raised(r, "RuntimeError")
       ELSE [r EXCEPT !.pc = "transfer"]

\* LayersTransfer: load_source_from_file, then execute
transferLayers(run) ==
    [Did(run, "execute") EXCEPT !.pc = "returned"]

CallbackFrame == UNCHANGED <<mesh, host, stack, unwinding, last, scope, batch, shadow, imp>>

\* the user picks the action in a scene
BindSkinAndImportLayer ==
    \E env \in Envs :
        /\ cb.pc = "idle"
        /\ cb' = [NoCallback EXCEPT !.pc = "start", !.env = env]
        /\ CallbackFrame

SelectionCheck == cb.pc = "start" /\ cb' = selectionCheck(cb) /\ CallbackFrame
MeshCheck == cb.pc = "mesh" /\ cb' = meshCheck(cb) /\ CallbackFrame
SkinCheck == cb.pc = "skin" /\ cb' = skinCheck(cb) /\ CallbackFrame
FileDialog == cb.pc = "dialog" /\ cb' = fileDialog(cb) /\ CallbackFrame
DataList == cb.pc = "list" /\ cb' = dataList(cb) /\ CallbackFrame
BindSkin == cb.pc = "bind" /\ cb' = bindSkin(cb) /\ CallbackFrame
TransferLayers == cb.pc = "transfer" /\ cb' = transferLayers(cb) /\ CallbackFrame

NextCallback ==
    \/ BindSkinAndImportLayer
    \/ SelectionCheck
    \/ MeshCheck
    \/ SkinCheck
    \/ FileDialog
    \/ DataList
    \/ BindSkin
    \/ TransferLayers

SpecCallback == Init /\ [][NextCallback]_vars

----------------------------------------------------------------------------
(* Properties of the weight buffers (SpecWeights, SpecMirror).             *)

CapList(ws) == [i \in 1..Len(ws) |-> Cap(ws[i])]

GetterOps == {"getInfluenceWeights", "getLayerMask", "getDualQuaternionWeights"}
SetterOps == {"setInfluenceWeights", "setLayerMask", "setDualQuaternionWeights"}

\* the paint target a setter call wrote
WrittenTarget(c) ==
    IF c.op = "setLayerMask" THEN MASK
    ELSE IF c.op = "setDualQuaternionWeights" THEN DUAL_QUATERNION
    ELSE c.args.influence

\* the caller's record of the buffer a getter call read, if the layer exists
ReadShadow(c) ==
    IF c.args.layerId.isNone \/ c.args.layerId.v \notin LayerIds THEN Unknown
    ELSE shadow.weights[c.args.layerId.v][c.args.influence]

\* C3: getInfluenceWeights of a buffer of a valid layer last written, by
\* setInfluenceWeights, with a non-empty list of vertex-count length returns
\* the written values capped to [0, 1].
C3_RoundTripCapped ==
    (last.op = "getInfluenceWeights" /\ ReadShadow(last).known /\ ReadShadow(last).v # <<>>)
        => (last.ok /\ last.val = CapList(ReadShadow(last).v))

\* C4: a write of the empty list to a paint target (by setInfluenceWeights,
\* setLayerMask or setDualQuaternionWeights) leaves the buffer uninitialized,
\* and every getter of a buffer last written empty returns the empty list.
C4_EmptyResets ==
    /\ (last.op \in SetterOps /\ last.ok /\ last.args.weights = <<>>)
           => host[TargetOfCall(last)].weights[last.args.layerId.v][WrittenTarget(last)] = <<>>
    /\ (last.op \in GetterOps /\ ReadShadow(last).known /\ ReadShadow(last).v = <<>>)
           => (last.ok /\ last.val = <<>>)

\* the mask, reset by an empty write after it had been initialized, is read
\* back empty
C4_Witness ==
    /\ last.op = "getLayerMask" /\ last.ok /\ last.val = <<>>
    /\ shadow.weights[1][MASK].known /\ shadow.weights[1][MASK].reset
    /\ shadow.weights[1][MASK].v = <<>>

\* C7: a setInfluenceWeights or mirrorLayerWeights call that fails leaves
\* every weight buffer of every layer of every target as it was.
C7_FailedCallChangesNothing ==
    [][(last'.op \in {"setInfluenceWeights", "mirrorLayerWeights"} /\ ~last'.ok)
          => \A t \in Targets : host'[t].weights = host[t].weights]_vars

\* the host refused a weight list of a wrong length for a buffer that holds
\* weights
C7_Witness ==
    /\ last.op = "setInfluenceWeights" /\ ~last.ok /\ last.cmds # <<>>
    /\ last.args.weights = TooLong /\ last.args.layerId = Some(1)
    /\ last.args.influence = MASK
    /\ host["selection"].weights[1][MASK] # <<>>

----------------------------------------------------------------------------
(* Properties of the layers (SpecLayer).                                   *)

\* C6: pruneWeights and pruneMask called without a layer id, while there is
\* a current layer, succeed and prune the current layer.
C6_PruneDefaultsToCurrentLayer ==
    (last.op \in {"pruneWeights", "pruneMask"} /\ last.args.layerId.isNone
         /\ mesh.isNone /\ host["selection"].current \in LayerIds)
        => (last.ok /\ last.cmds # <<>>)

----------------------------------------------------------------------------
(* Properties of the target context (SpecTarget).                          *)

\* the command the last call issued
LastCmd == last.cmds[1]

\* C10: every command addresses the target the wrapper's mesh fixes: no
\* object and no targetReferenceMesh flag for None, the flag and no object
\* for TARGET_REFERENCE_MESH, else the mesh name as the only object and no
\* flag; on the keyword path and on the MEL path alike.
C10_OneTargetPerMesh ==
    /\ (last.cmds # <<>> /\ mesh.isNone) =>
           /\ LastCmd.args = <<>>
           /\ "targetReferenceMesh" \notin DOMAIN LastCmd.kw
    /\ (last.cmds # <<>> /\ ~mesh.isNone /\ mesh.name = TARGET_REFERENCE_MESH) =>
           /\ LastCmd.args = <<>>
           /\ "targetReferenceMesh" \in DOMAIN LastCmd.kw
    /\ (last.cmds # <<>> /\ ~mesh.isNone /\ mesh.name # TARGET_REFERENCE_MESH) =>
           /\ LastCmd.args = <<mesh.name>>
           /\ "targetReferenceMesh" \notin DOMAIN LastCmd.kw

----------------------------------------------------------------------------
(* Properties of the batch update scope (SpecScope).                       *)

\* C1: every with statement over batchUpdateContext whose __enter__
\* completed issues endDataUpdate exactly once when it is left, whether the
\* body finished or raised; a with statement whose __enter__ raised issues
\* no endDataUpdate.
C1_EndOnceOnEveryExit ==
    /\ (scope.kind = "with" /\ scope.entered) => scope.ends = 1
    /\ (scope.kind = "with" /\ ~scope.entered) => scope.ends = 0

\* a with statement left by an exception, its endDataUpdate issued once
C1_Witness ==
    /\ scope.kind = "with" /\ scope.entered /\ scope.path = "raised"
    /\ scope.ends = 1
    /\ last.op = "__exit__" /\ stack = <<>>

\* C2: in a properly nested batch, no recomposition runs while a scope is
\* open, whatever the depth, and exactly one has run when the outermost
\* scope has just been closed.
C2_RecomposeOnceAtOutermostEnd ==
    /\ stack # <<>> => batch.recomp = 0
    /\ host["selection"].suspend > 0 => last.recomp = 0
    /\ (stack = <<>> /\ last.op \in {"__exit__", "endDataUpdate"} /\ last.ok)
           => (batch.recomp = 1 /\ last.recomp = 1 /\ ~host["selection"].dirty)

\* a batch nested two deep with a mutation in it has just been closed
C2_Witness ==
    /\ stack = <<>> /\ last.op \in {"__exit__", "endDataUpdate"}
    /\ batch.deepest >= 2 /\ batch.mutated
    /\ batch.recomp = 1

\* C8: in an open batch, a read of a value written in that batch returns
\* the value written (capped to [0, 1] where the host caps).
C8_ReadsSeeWritesInBatch ==
    (stack # <<>> /\ last.depth > 0 /\ mesh.isNone) =>
        LET sh == shadow
            l == last.args.layerId.v
        IN /\ (last.op = "getLayerOpacity" /\ sh.opacity[l].fresh)
                  => (last.ok /\ last.val = Cap(sh.opacity[l].v))
           /\ (last.op = "isLayerEnabled" /\ sh.enabled[l].fresh)
                  => (last.ok /\ last.val = sh.enabled[l].v)
           /\ (last.op = "getInfluenceWeights" /\ sh.weights[l][last.args.influence].fresh)
                  => (last.ok /\ last.val = CapList(sh.weights[l][last.args.influence].v))

----------------------------------------------------------------------------
(* Properties of the import (SpecImport).                                  *)

\* the paths of all records of all groups of the imported file
ImportedPaths ==
    UNION {{imp.data[g][i].path : i \in 1..Len(imp.data[g])} : g \in 1..Len(imp.data)}

\* C5: an import fails (ValueError) exactly when no imported path is in the
\* scene; every imported path the scene lacks is warned about; and an import
\* that returns, returns a non-empty list of paths that are in the scene.
C5_FailsIffNothingExists ==
    imp.called =>
        /\ ~imp.ok <=> (ImportedPaths \cap imp.scene = {})
        /\ ~imp.ok => imp.err = "ValueError"
        /\ \A p \in ImportedPaths \ imp.scene :
               \E w \in 1..Len(imp.warnings) : imp.warnings[w] = MissingWarning(p)
        /\ imp.ok => /\ imp.val # <<>>
                     /\ \A i \in 1..Len(imp.val) : imp.val[i] \in imp.scene

RECURSIVE PathsInFileOrder(_)
\* the paths of all records of all groups, in the order of the file
PathsInFileOrder(data_values) ==
    IF data_values = <<>> THEN <<>>
    ELSE [i \in 1..Len(Head(data_values)) |-> Head(data_values)[i].path]
             \o PathsInFileOrder(Tail(data_values))

\* the paths of a list that the scene has, in the order of the list
ExistingOf(paths, scene) ==
    LET exists(object) == object \in scene
    IN SelectSeq(paths, exists)

\* C11: an import that returns, returns exactly the paths of the records of
\* all groups of the imported file that are in the scene, in file order.
C11_AllGroupsInFileOrder ==
    (imp.called /\ imp.ok) =>
        imp.val = ExistingOf(PathsInFileOrder(imp.data), imp.scene)

----------------------------------------------------------------------------
(* Properties of the bind-skin callback (SpecCallback).                    *)

\* the commands and calls of a run that goes all the way, in order
FullRun ==
    <<"ls", "lsMesh", "listRelatives", "findRelatedSkinCluster", "dialog",
      "ilm_data_list", "skinCluster", "execute">>

Made(ev) == \E i \in 1..Len(cb.events) : cb.events[i] = ev

\* a selection precondition of the run fails (the mesh that is bound, and
\* tested for a skin cluster, is the first one under the selection)
SelectionFails ==
    \/ cb.env.selected # 1
    \/ cb.env.meshes = <<>>
    \/ ParentOf(cb.env.meshes[1]) \in cb.env.skinned

\* C12: the run makes its commands in the order of FullRun; a skin cluster
\* is created, and the transfer executed, only when one object is selected,
\* it has a mesh without a skin cluster, the dialog returned a file name and
\* ilm_data_list returned a non-empty list; a run that raised ValueError or
\* whose dialog was cancelled created no skin cluster and ran no transfer;
\* and the dialog is not opened when a selection precondition fails.
C12_BindOnlyAfterAllChecks ==
    /\ cb.events = SubSeq(FullRun, 1, Len(cb.events))
    /\ (Made("skinCluster") \/ Made("execute")) =>
           /\ ~SelectionFails
           /\ cb.env.fileName # <<>>
           /\ cb.listData # <<>>
           /\ Made("skinCluster")
    /\ (cb.exc = "ValueError" \/ (Made("dialog") /\ cb.env.fileName = <<>>)) =>
           (~Made("skinCluster") /\ ~Made("execute"))
    /\ SelectionFails => ~Made("dialog")

\* a run that passed every check, created the skin cluster and executed
\* the transfer
C12_Witness ==
    /\ cb.pc = "returned" /\ cb.events = FullRun
    /\ cb.listData # <<>>

----------------------------------------------------------------------------
(* Properties of the "no layer" value (SpecParent).                        *)

\* C13: setCurrentLayer(None) sends cl 0 and setLayerParent(id, None) sends
\* parent 0; getCurrentLayer and getLayerParent return None when the host
\* reports 0 and the id the host reports otherwise, never 0.
C13_NoLayerIsNone ==
    /\ (last.op = "setCurrentLayer" /\ last.args.layerId.isNone) =>
           (last.cmds # <<>> /\ LastCmd.kw.cl = 0)
    /\ (last.op = "setLayerParent" /\ last.cmds # <<>>
            /\ last.args.parentLayerId.isNone) => LastCmd.kw.parent = 0
    /\ (last.op = "getCurrentLayer" /\ last.ok) =>
           /\ last.val # Some(0)
           /\ LET reported == host[TargetOfCall(last)].current
              IN last.val = IF reported = 0 THEN None ELSE Some(reported)
    /\ (last.op = "getLayerParent" /\ last.ok) =>
           LET reported == host[TargetOfCall(last)].parent[last.args.layerId.v]
           IN /\ last.val # Some(0)
              /\ last.val = IF reported = 0 THEN None ELSE Some(reported)

\* getLayerParent returns None for a layer whose parent was set and then
\* set to None, while the current layer is set
C13_Witness ==
    /\ last.op = "getLayerParent" /\ last.ok /\ last.val = None
    /\ last.args.layerId = Some(1)
    /\ host["selection"].parent[2] = 1
    /\ host["selection"].current = 2

====
